---- MODULE Spec2Model ----
(***************************************************************************)
(* Verification model of the Tracer path tracer (src/Tracer/src/main.cxx). *)
(*                                                                         *)
(* Two state machines share this module:                                   *)
(*   - Spec / FairSpec : main() starting numThreads workers that each run  *)
(*     render(), joining them and encoding the image files;                *)
(*   - RaySpec / FairRaySpec : one top-level call of rayColor(), executed  *)
(*     as an explicit call stack against an arbitrary or an empty scene.   *)
(*                                                                         *)
(* Notes on the translation of render():                                   *)
(*   - render() takes `std::atomic<int> scanLinesLeft` BY VALUE (line 69), *)
(*     so every worker runs on the cell CellOf(w), a copy made when the    *)
(*     thread is started; cell 0 is the object declared in main (l. 132).  *)
(*   - the row index `j` of line 80 is never declared or assigned in the   *)
(*     source.  The only row value the loop produces is the one of the     *)
(*     statement `scanLinesLeft--` (line 74): the value it fetches (the    *)
(*     result of the postfix decrement) or the value it stores.  Which of  *)
(*     the two a build binds to j is chosen once, in Init (rowBinding).    *)
(*   - a worker takes a step at each access of an object other threads can *)
(*     reach (the counter, the writers); the sampling of a pixel works on  *)
(*     the local pixelColor and belongs to the step of the first writer    *)
(*     call that follows it.                                               *)
(*   - the writers are passed by reference and are shared; each call on a  *)
(*     writer is one indivisible step.  A writer is represented by the     *)
(*     calls it has observed: how often it received each pixel, and the    *)
(*     pixel it received last.                                             *)
(***************************************************************************)
EXTENDS Integers, Sequences, FiniteSets, TLC

\* ---- bounds of the model ----
\* image size, samples and bounce limit are 1920 x 1080, 100 and 50 in main
\* (lines 103-106); MaxThreads bounds what hardware_concurrency() reports
imageWidth == 1
imageHeight == 2
samplesPerPixel == 1
MaxThreads == 2
maxRayDepth == 3

VARIABLES
    numThreads,     \* std::thread::hardware_concurrency(), line 129
    rowBinding,     \* which value of line 74 the row index j denotes
    mainpc,         \* position of main()
    spawnIdx,       \* loop variable i of main line 135
    joinIdx,        \* position of the range-for of line 144
    scanLinesLeft,  \* counter cells: 0 is main's object, w is worker w's
    pc,             \* position of each worker inside render()
    col,            \* render's loop variable i (line 76)
    row,            \* the row index j (line 80)
    pixelColor,     \* the colour of line 77: samples added, combined?
    ppmOut,         \* calls of pw.write observed so far
    pngBuf,         \* calls of iw.writeToPNGBuffer observed so far
    jpgBuf,         \* calls of iw.writeToJPGBuffer observed so far
    visits,         \* instrumented counter: samples taken per pixel
    rowsClaimed,    \* per worker, the rows of its loop iterations in order
    pngResult,      \* result of iw.writePNG()
    jpgResult,      \* result of iw.writeJPG()
    session,        \* state of the Instrumentor session
    rcBudget,       \* argument depth of the top-level call of rayColor
    rcCalls,        \* the calls of rayColor made so far, outermost first
    rcTop,          \* the call that is executing (0: the top call returned)
    hitQueries,     \* number of calls of world.hit
    scatterQueries, \* number of calls of material->scatter
    world           \* the scene given to rayColor: with objects or empty

renderVars == <<numThreads, rowBinding, mainpc, spawnIdx, joinIdx,
                scanLinesLeft, pc, col, row, pixelColor, ppmOut,
                pngBuf, jpgBuf, visits, rowsClaimed, pngResult, jpgResult,
                session>>

rayVars == <<rcBudget, rcCalls, rcTop, hitQueries, scatterQueries, world>>

vars == <<renderVars, rayVars>>

Workers == 1..MaxThreads

Threads == 1..numThreads

Columns == 0..(imageWidth - 1)

Rows == 0..(imageHeight - 1)

\* rows a worker can ever name, in or out of the image
RowRange == (0 - MaxThreads - 1)..imageHeight

\* main line 132: std::atomic<int> scanLinesLeft = imageHeight - 1
InitialScanLines == imageHeight - 1

\* the counter passed by reference: every worker works on main's object
CellOfShared(w) == 0

\* render line 69: the counter parameter is taken by value
CellOf(w) == w

\* render line 74: scanLinesLeft--
Decrement(c) == c - 1

\* line 72 with the comparison slipped to >=
LoopConditionInclusive(c) == c >= 0

\* render line 72: scanLinesLeft > 0
LoopCondition(c) == c > 0

\* render lines 74 and 80: the row the iteration works on
RowIndex(fetched, stored) == IF rowBinding = "fetched" THEN fetched ELSE stored

\* color pixelColor; (line 77, color.hpp lines 11-13: all components zero)
ZeroColor == [added |-> 0, combined |-> FALSE]

\* a writer before its first call (main lines 125-126)
NoCalls == [count |-> [p \in Columns \X RowRange |-> 0], last |-> <<>>]

\* a writer after one more call, with pixel p (render lines 89-91)
Receive(out, p) ==
    [count |-> [out.count EXCEPT ![<<p.col, p.row>>] = @ + 1],
     last |-> <<p>>]

Init ==
    /\ numThreads \in 0..MaxThreads
    /\ rowBinding \in {"fetched", "stored"}
    /\ mainpc = "beginSession"
    /\ spawnIdx = 0
    /\ joinIdx = 0
    /\ scanLinesLeft = (0 :> InitialScanLines)
    /\ pc = [w \in Workers |-> "unstarted"]
    /\ col = [w \in Workers |-> 0]
    /\ row = [w \in Workers |-> 0]
    /\ pixelColor = [w \in Workers |-> ZeroColor]
    /\ ppmOut = NoCalls
    /\ pngBuf = NoCalls
    /\ jpgBuf = NoCalls
    /\ visits = [p \in Columns \X RowRange |-> 0]
    /\ rowsClaimed = [w \in Workers |-> <<>>]
    /\ pngResult = "none"
    /\ jpgResult = "none"
    /\ session = "none"
    /\ rcBudget = 0
    /\ rcCalls = <<>>
    /\ rcTop = 0
    /\ hitQueries = 0
    /\ scatterQueries = 0
    /\ world = "objects"

\* what main() leaves alone: the workers' state, and rayColor's
workerState == <<pc, col, row, pixelColor, ppmOut, pngBuf, jpgBuf, visits,
                 rowsClaimed, rayVars>>

\* main line 97 up to line 132
BeginSession ==
    /\ mainpc = "beginSession"
    /\ session' = "open"
    /\ mainpc' = "spawn"
    /\ UNCHANGED <<numThreads, rowBinding, spawnIdx, joinIdx, scanLinesLeft,
                   pngResult, jpgResult>>
    /\ UNCHANGED workerState

\* main lines 135-139: one iteration of the loop starting the threads; the
\* arguments are copied into the new thread, the counter among them
StartThread ==
    /\ mainpc = "spawn"
    /\ spawnIdx < numThreads
    /\ LET w == spawnIdx + 1 IN
        /\ scanLinesLeft' = (CellOf(w) :> scanLinesLeft[0]) @@ scanLinesLeft
        /\ pc' = [pc EXCEPT ![w] = "test"]
    /\ spawnIdx' = spawnIdx + 1
    /\ UNCHANGED <<numThreads, rowBinding, mainpc, joinIdx, col, row,
                   pixelColor, ppmOut, pngBuf, jpgBuf, visits, rowsClaimed,
                   pngResult, jpgResult, session, rayVars>>

\* main lines 135 and 141: the loop ends
StartDone ==
    /\ mainpc = "spawn"
    /\ ~(spawnIdx < numThreads)
    /\ mainpc' = "join"
    /\ UNCHANGED <<numThreads, rowBinding, spawnIdx, joinIdx, scanLinesLeft,
                   pngResult, jpgResult, session>>
    /\ UNCHANGED workerState

\* the range-for of line 144 going on without waiting for the thread
JoinThreadNoWait ==
    /\ mainpc = "join"
    /\ joinIdx < numThreads
    /\ joinIdx' = joinIdx + 1
    /\ UNCHANGED <<numThreads, rowBinding, mainpc, spawnIdx, scanLinesLeft,
                   pngResult, jpgResult, session>>
    /\ UNCHANGED workerState

\* main lines 144-146: t.join() returns once thread t has finished
JoinThread ==
    /\ mainpc = "join"
    /\ joinIdx < numThreads
    /\ pc[joinIdx + 1] = "done"
    /\ joinIdx' = joinIdx + 1
    /\ UNCHANGED <<numThreads, rowBinding, mainpc, spawnIdx, scanLinesLeft,
                   pngResult, jpgResult, session>>
    /\ UNCHANGED workerState

\* main line 144: every thread of the pool is joined
JoinDone ==
    /\ mainpc = "join"
    /\ ~(joinIdx < numThreads)
    /\ mainpc' = "writePNG"
    /\ UNCHANGED <<numThreads, rowBinding, spawnIdx, joinIdx, scanLinesLeft,
                   pngResult, jpgResult, session>>
    /\ UNCHANGED workerState

\* main lines 149-153: iw.writePNG() succeeds or fails, both are reported
WritePNG ==
    /\ mainpc = "writePNG"
    /\ \E ok \in BOOLEAN : pngResult' = IF ok THEN "ok" ELSE "error"
    /\ mainpc' = "writeJPG"
    /\ UNCHANGED <<numThreads, rowBinding, spawnIdx, joinIdx, scanLinesLeft,
                   jpgResult, session>>
    /\ UNCHANGED workerState

\* lines 155-161 run only after a successful writePNG: a failed writePNG
\* ends the output phase
WriteJPGAfterSuccess ==
    /\ mainpc = "writeJPG"
    /\ pngResult = "ok"
    /\ \E ok \in BOOLEAN : jpgResult' = IF ok THEN "ok" ELSE "error"
    /\ mainpc' = "endSession"
    /\ UNCHANGED <<numThreads, rowBinding, spawnIdx, joinIdx, scanLinesLeft,
                   pngResult, session>>
    /\ UNCHANGED workerState

\* main lines 155-161
WriteJPG ==
    /\ mainpc = "writeJPG"
    /\ \E ok \in BOOLEAN : jpgResult' = IF ok THEN "ok" ELSE "error"
    /\ mainpc' = "endSession"
    /\ UNCHANGED <<numThreads, rowBinding, spawnIdx, joinIdx, scanLinesLeft,
                   pngResult, session>>
    /\ UNCHANGED workerState

\* main line 163
EndSession ==
    /\ mainpc = "endSession"
    /\ session' = "closed"
    /\ mainpc' = "exit"
    /\ UNCHANGED <<numThreads, rowBinding, spawnIdx, joinIdx, scanLinesLeft,
                   pngResult, jpgResult>>
    /\ UNCHANGED workerState

\* what render() leaves alone: main's state, and rayColor's
mainState == <<numThreads, rowBinding, mainpc, spawnIdx, joinIdx,
                 pngResult, jpgResult, session, rayVars>>

\* LoopTest without the exit of the loop: a worker that finds nothing left
\* tests again instead of returning
LoopTestNoExit(w) ==
    /\ pc[w] = "test"
    /\ pc' = [pc EXCEPT ![w] =
                IF LoopCondition(scanLinesLeft[CellOf(w)]) THEN "decrement"
                                                           ELSE "test"]
    /\ UNCHANGED <<scanLinesLeft, col, row, pixelColor, ppmOut, pngBuf,
                   jpgBuf, visits, rowsClaimed>>
    /\ UNCHANGED mainState

\* render line 72: while (scanLinesLeft > 0)
LoopTest(w) ==
    /\ pc[w] = "test"
    /\ pc' = [pc EXCEPT ![w] =
                IF LoopCondition(scanLinesLeft[CellOf(w)]) THEN "decrement"
                                                           ELSE "done"]
    /\ UNCHANGED <<scanLinesLeft, col, row, pixelColor, ppmOut, pngBuf,
                   jpgBuf, visits, rowsClaimed>>
    /\ UNCHANGED mainState

\* render line 76: i < imageWidth; the next pixel, or back to line 72
PixelLoop(i) == IF i < imageWidth THEN "pixel" ELSE "test"

\* render lines 74 and 76: scanLinesLeft-- and the start of the pixel loop
ClaimRow(w) ==
    /\ pc[w] = "decrement"
    /\ LET fetched == scanLinesLeft[CellOf(w)]
           stored == Decrement(fetched)
           j == RowIndex(fetched, stored) IN
        /\ scanLinesLeft' = [scanLinesLeft EXCEPT ![CellOf(w)] = stored]
        /\ row' = [row EXCEPT ![w] = j]
        /\ rowsClaimed' = [rowsClaimed EXCEPT ![w] = Append(@, j)]
    /\ col' = [col EXCEPT ![w] = 0]
    /\ pc' = [pc EXCEPT ![w] = PixelLoop(0)]
    /\ UNCHANGED <<pixelColor, ppmOut, pngBuf, jpgBuf, visits>>
    /\ UNCHANGED mainState

\* render lines 78-84: s further samples of the pixel added to the colour c
RECURSIVE Accumulate(_, _)
Accumulate(c, s) ==
    IF s = 0 THEN c ELSE Accumulate([c EXCEPT !.added = @ + 1], s - 1)

\* line 87 left out: the sum of the samples is handed on as it is
CombineColorSkipped(c) == c

\* color::combine (color.hpp line 46), applied to the accumulated colour
CombineColor(c) == [c EXCEPT !.combined = TRUE]

\* the pixel a writer receives from worker w: its place and its colour c
Pixel(w, c) == [row |-> row[w], col |-> col[w], color |-> c]

\* render lines 77-89: color pixelColor; the samplesPerPixel samples of
\* pixel (i, j); pixelColor.combine(samplesPerPixel); pw.write(pixelColor).
\* Everything before the call of pw.write works on the worker's local
\* pixelColor only, so the step is taken at the call.
WritePPM(w) ==
    /\ pc[w] = "pixel"
    /\ LET sampled == Accumulate(ZeroColor, samplesPerPixel)
           finished == CombineColor(sampled) IN
        /\ pixelColor' = [pixelColor EXCEPT ![w] = finished]
        /\ ppmOut' = Receive(ppmOut, Pixel(w, finished))
    /\ visits' = [visits EXCEPT ![<<col[w], row[w]>>] = @ + samplesPerPixel]
    /\ pc' = [pc EXCEPT ![w] = "png"]
    /\ UNCHANGED <<scanLinesLeft, col, row, pngBuf, jpgBuf, rowsClaimed>>
    /\ UNCHANGED mainState

\* render line 90: iw.writeToPNGBuffer(pixelColor)
WriteToPNGBuffer(w) ==
    /\ pc[w] = "png"
    /\ pngBuf' = Receive(pngBuf, Pixel(w, pixelColor[w]))
    /\ pc' = [pc EXCEPT ![w] = "jpg"]
    /\ UNCHANGED <<scanLinesLeft, col, row, pixelColor, ppmOut, jpgBuf,
                   visits, rowsClaimed>>
    /\ UNCHANGED mainState

\* render lines 91 and 76: iw.writeToJPGBuffer(pixelColor); ++i and the
\* test of the pixel loop
WriteToJPGBuffer(w) ==
    /\ pc[w] = "jpg"
    /\ jpgBuf' = Receive(jpgBuf, Pixel(w, pixelColor[w]))
    /\ col' = [col EXCEPT ![w] = @ + 1]
    /\ pc' = [pc EXCEPT ![w] = PixelLoop(col[w] + 1)]
    /\ UNCHANGED <<scanLinesLeft, row, pixelColor, ppmOut, pngBuf,
                   visits, rowsClaimed>>
    /\ UNCHANGED mainState

\* one step of render() in worker w
render(w) ==
    \/ LoopTest(w)
    \/ ClaimRow(w)
    \/ WritePPM(w)
    \/ WriteToPNGBuffer(w)
    \/ WriteToJPGBuffer(w)

\* one step of main()
main ==
    \/ BeginSession
    \/ StartThread
    \/ StartDone
    \/ JoinThread
    \/ JoinDone
    \/ WritePNG
    \/ WriteJPG
    \/ EndSession

Next ==
    \/ main
    \/ \E w \in Workers : render(w)

Spec == Init /\ [][Next]_vars

\* the operating system schedules main and every started thread
FairSpec ==
    /\ Spec
    /\ WF_vars(main)
    /\ \A w \in Workers : WF_vars(render(w))

\* ------------------------------------------------------------------------
\* rayColor (main.cxx lines 38-67), executed call by call
\* ------------------------------------------------------------------------
\* Numbers are exact rationals <<numerator, denominator>> in lowest terms
\* with a positive denominator; a colour is a triple of them.  The scene and
\* the materials are arbitrary: world.hit answers hit or no hit, scatter
\* answers absorbed or scattered with any attenuation of Attenuations.

RECURSIVE GCD(_, _)
GCD(a, b) == IF b = 0 THEN a ELSE GCD(b, a % b)

Abs(n) == IF n < 0 THEN 0 - n ELSE n

Rat(n, d) ==
    LET g == GCD(Abs(n), Abs(d))
        sgn == IF d < 0 THEN 0 - 1 ELSE 1
    IN <<(sgn * n) \div g, (sgn * d) \div g>>

RatMul(a, b) == Rat(a[1] * b[1], a[2] * b[2])

RatAdd(a, b) == Rat(a[1] * b[2] + b[1] * a[2], a[2] * b[2])

RatSub(a, b) == Rat(a[1] * b[2] - b[1] * a[2], a[2] * b[2])

\* color(r, g, b), color.hpp lines 11-13
Color(r, g, b) == <<r, g, b>>

\* color(0, 0, 0), main.cxx lines 41 and 55
Black == Color(Rat(0, 1), Rat(0, 1), Rat(0, 1))

\* operator*(const color&, const color&), color.hpp line 52
ColorMul(u, v) == Color(RatMul(u[1], v[1]), RatMul(u[2], v[2]),
                        RatMul(u[3], v[3]))

\* operator*(Float, const color&), color.hpp line 53
ColorScale(t, c) == Color(RatMul(t, c[1]), RatMul(t, c[2]), RatMul(t, c[3]))

\* operator+(const color&, const color&), color.hpp line 50
ColorAdd(u, v) == Color(RatAdd(u[1], v[1]), RatAdd(u[2], v[2]),
                        RatAdd(u[3], v[3]))

\* the albedos of the materials of main lines 111-114
Attenuations ==
    { Color(Rat(8, 10), Rat(8, 10), Rat(0, 10)),
      Color(Rat(7, 10), Rat(3, 10), Rat(3, 10)),
      Color(Rat(8, 10), Rat(8, 10), Rat(8, 10)),
      Color(Rat(8, 10), Rat(6, 10), Rat(2, 10)) }

\* values of unitDirection.y() (line 58), between -1 and 1
UnitYs == {Rat(0 - 1, 1), Rat(0 - 1, 2), Rat(0, 1), Rat(1, 2), Rat(1, 1)}

\* the test of line 40 with < in place of <=
BudgetExhaustedStrict(depth) == depth < 0

\* main.cxx line 40: depth <= 0
BudgetExhausted(depth) == depth <= 0

\* the recursive call made with the caller's own budget
NextBudgetSame(depth) == depth

\* main.cxx line 52: the budget of the recursive call, depth - 1
NextBudget(depth) == depth - 1

\* line 61 with the parenthesis misplaced: 0.5 * y + 1.0
GradientTSlip(y) == RatAdd(RatMul(Rat(1, 2), y), Rat(1, 1))

\* main.cxx line 61: t = 0.5 * (unitDirection.y() + 1.0)
GradientT(y) == RatMul(Rat(1, 2), RatAdd(y, Rat(1, 1)))

\* line 64 with the two ends of the blend exchanged
BackgroundSwapped(y) ==
    LET t == GradientT(y) IN
    ColorAdd(ColorScale(t, Color(Rat(1, 1), Rat(1, 1), Rat(1, 1))),
             ColorScale(RatSub(Rat(1, 1), t),
                        Color(Rat(5, 10), Rat(7, 10), Rat(10, 10))))

\* main.cxx line 64: (1.0 - t) * color(1, 1, 1) + t * color(0.5, 0.7, 1.0)
Background(y) ==
    LET t == GradientT(y) IN
    ColorAdd(ColorScale(RatSub(Rat(1, 1), t),
                        Color(Rat(1, 1), Rat(1, 1), Rat(1, 1))),
             ColorScale(t, Color(Rat(5, 10), Rat(7, 10), Rat(10, 10))))

\* lines 58-64 for each direction of UnitYs
BackgroundOf == [y \in UnitYs |-> Background(y)]

\* the recursive result returned as it is, the attenuation forgotten
AttenuateNone(attenuation, c) == c

\* main.cxx line 52: attenuation * rayColor(scattered, world, depth - 1)
Attenuate(attenuation, c) == ColorMul(attenuation, c)

\* the answers world.hit can give: a list without objects has nothing to
\* intersect, so it reports no hit
HitAnswers == IF world = "empty" THEN {FALSE} ELSE BOOLEAN

\* a call of rayColor that has just been entered with budget depth
NewCall(depth) ==
    [depth |-> depth, phase |-> "enter", hit |-> "pending",
     scattered |-> "pending", attenuation |-> Black, y |-> Rat(0, 1),
     via |-> "pending", value |-> Black]

\* a return statement of the executing call: the value goes to the caller
Return(line, v) ==
    /\ rcCalls' = [rcCalls EXCEPT ![rcTop].phase = "returned",
                                  ![rcTop].via = line,
                                  ![rcTop].value = v]
    /\ rcTop' = rcTop - 1

\* the state in which rayColor(r, world, depth) has just been called from
\* outside, for any budget from -1 to maxRayDepth
RayInit ==
    /\ numThreads = 0
    /\ rowBinding = "fetched"
    /\ mainpc = "beginSession"
    /\ spawnIdx = 0
    /\ joinIdx = 0
    /\ scanLinesLeft = (0 :> InitialScanLines)
    /\ pc = [w \in Workers |-> "unstarted"]
    /\ col = [w \in Workers |-> 0]
    /\ row = [w \in Workers |-> 0]
    /\ pixelColor = [w \in Workers |-> ZeroColor]
    /\ ppmOut = NoCalls
    /\ pngBuf = NoCalls
    /\ jpgBuf = NoCalls
    /\ visits = [p \in Columns \X RowRange |-> 0]
    /\ rowsClaimed = [w \in Workers |-> <<>>]
    /\ pngResult = "none"
    /\ jpgResult = "none"
    /\ session = "none"
    /\ rcBudget \in (0 - 1)..maxRayDepth
    /\ rcCalls = <<NewCall(rcBudget)>>
    /\ rcTop = 1
    /\ hitQueries = 0
    /\ scatterQueries = 0
    /\ world \in {"objects", "empty"}

\* main.cxx lines 40-42: the bounce limit
CheckBudget ==
    /\ rcTop > 0
    /\ rcCalls[rcTop].phase = "enter"
    /\ IF BudgetExhausted(rcCalls[rcTop].depth)
          THEN Return("budget", Black)
          ELSE /\ rcCalls' = [rcCalls EXCEPT ![rcTop].phase = "hit"]
               /\ UNCHANGED rcTop
    /\ UNCHANGED <<rcBudget, hitQueries, scatterQueries, world>>
    /\ UNCHANGED renderVars

\* main.cxx line 46 and lines 58-64: world.hit(r, 0.001, infinity, record);
\* without a hit the background gradient of the ray's direction is returned
WorldHit ==
    /\ rcTop > 0
    /\ rcCalls[rcTop].phase = "hit"
    /\ hitQueries' = hitQueries + 1
    /\ \E isHit \in HitAnswers :
       \E y \in (IF isHit THEN {Rat(0, 1)} ELSE UnitYs) :
          IF isHit
             THEN /\ rcCalls' = [rcCalls EXCEPT ![rcTop].phase = "scatter",
                                                ![rcTop].hit = "yes"]
                  /\ UNCHANGED rcTop
             ELSE /\ rcCalls' =
                        [rcCalls EXCEPT ![rcTop].phase = "returned",
                                        ![rcTop].hit = "no",
                                        ![rcTop].y = y,
                                        ![rcTop].via = "gradient",
                                        ![rcTop].value = BackgroundOf[y]]
                  /\ rcTop' = rcTop - 1
    /\ UNCHANGED <<rcBudget, scatterQueries, world>>
    /\ UNCHANGED renderVars

\* main.cxx lines 48-55: record.material->scatter(r, record, attenuation,
\* scattered); on success rayColor is called for the scattered ray, on
\* absorption black is returned
MaterialScatter ==
    /\ rcTop > 0
    /\ rcCalls[rcTop].phase = "scatter"
    /\ scatterQueries' = scatterQueries + 1
    /\ \E ok \in BOOLEAN : \E attenuation \in Attenuations :
          IF ok
             THEN /\ rcCalls' =
                        Append([rcCalls EXCEPT
                                   ![rcTop].phase = "recurse",
                                   ![rcTop].scattered = "yes",
                                   ![rcTop].attenuation = attenuation],
                               NewCall(NextBudget(rcCalls[rcTop].depth)))
                  /\ rcTop' = rcTop + 1
             ELSE /\ rcCalls' = [rcCalls EXCEPT ![rcTop].phase = "returned",
                                                ![rcTop].scattered = "no",
                                                ![rcTop].via = "absorbed",
                                                ![rcTop].value = Black]
                  /\ rcTop' = rcTop - 1
    /\ UNCHANGED <<rcBudget, hitQueries, world>>
    /\ UNCHANGED renderVars

\* main.cxx line 52: the recursive call has returned and its result is
\* multiplied by the attenuation
ReturnProduct ==
    /\ rcTop > 0
    /\ rcCalls[rcTop].phase = "recurse"
    /\ Return("product", Attenuate(rcCalls[rcTop].attenuation,
                                   rcCalls[rcTop + 1].value))
    /\ UNCHANGED <<rcBudget, hitQueries, scatterQueries, world>>
    /\ UNCHANGED renderVars

\* one step of rayColor
rayColor ==
    \/ CheckBudget
    \/ WorldHit
    \/ MaterialScatter
    \/ ReturnProduct

RayNext == rayColor

RaySpec == RayInit /\ [][RayNext]_vars

\* a call that can take a step takes it
FairRaySpec == RaySpec /\ WF_vars(RayNext)

\* the top-level call has returned
rcDone == rcTop = 0

\* the colour the top-level call returned
rcResult == rcCalls[1].value

\* ------------------------------------------------------------------------
\* Properties of the render run
\* ------------------------------------------------------------------------

\* the loop iterations made so far, as pairs <<worker, position>>
Iterations == {<<w, k>> \in Workers \X (1..(imageHeight + MaxThreads)) :
                  k <= Len(rowsClaimed[w])}

RowOfIteration(it) == rowsClaimed[it[1]][it[2]]

AllJoined == mainpc \in {"writePNG", "writeJPG", "endSession", "exit"}

AllWorkersDone == \A w \in Threads : pc[w] = "done"

\* C1: every image row is claimed by exactly one worker exactly once: no two
\* loop iterations, of different workers or of the same worker, work on the
\* same row.
C1_RowClaimedOnce ==
    \A a \in Iterations : \A b \in Iterations :
        a # b => RowOfIteration(a) # RowOfIteration(b)

\* C2: when the run has finished with 1, 2 or 8 workers, every pixel of the
\* image has been sampled exactly samplesPerPixel times.
C2_FullCoverage ==
    (AllJoined /\ numThreads \in {1, 2, 8}) =>
        \A i \in Columns : \A r \in Rows :
            visits[<<i, r>>] = samplesPerPixel

\* every counter object lies between 0 and the initial value
CounterInRange ==
    \A c \in DOMAIN scanLinesLeft :
        scanLinesLeft[c] \in 0..InitialScanLines

RECURSIVE TotalIterations(_)
TotalIterations(n) ==
    IF n = 0 THEN 0 ELSE Len(rowsClaimed[n]) + TotalIterations(n - 1)

\* C4: the counter is one object shared by all workers: every worker reads
\* the value the others have left, and the row iterations of all workers
\* together number the counter's initial value however many workers run.
C4_SharedCounter ==
    /\ \A w \in Workers :
          pc[w] # "unstarted" => scanLinesLeft[CellOf(w)] = scanLinesLeft[0]
    /\ (AllJoined /\ numThreads >= 1) =>
          TotalIterations(MaxThreads) = InitialScanLines

\* C5: under fair scheduling every worker leaves its loop, the joins
\* complete and main reaches the file-writing phase.
C5_RunCompletes == <>(AllWorkersDone /\ mainpc = "writePNG")

C5_Witness ==
    /\ numThreads = MaxThreads
    /\ AllWorkersDone
    /\ mainpc = "writePNG"
    /\ \A w \in Threads : Len(rowsClaimed[w]) = InitialScanLines

\* a call continues the row-major order of the calls before it: the first
\* pixel is the start of a row; otherwise the pixel is the right neighbour
\* of the last one, or the last one ended its row and the pixel starts the
\* next row claimed (the counter counts down, so the row below)
InOrder(before, after) ==
    LET p == after.last[1] IN
    IF before.last = <<>>
       THEN p.col = 0
       ELSE LET q == before.last[1] IN
            \/ p.row = q.row /\ p.col = q.col + 1
            \/ q.col = imageWidth - 1 /\ p.col = 0 /\ p.row = q.row - 1

SpawnLoopLeft == mainpc \notin {"beginSession", "spawn"}

\* C12: main starts at least one worker thread, also when the platform
\* reports a hardware parallelism of zero, and the render then still
\* processes rows instead of producing an empty image.
C12_AtLeastOneWorker ==
    /\ SpawnLoopLeft => spawnIdx >= 1
    /\ AllJoined => Iterations # {}

\* the writer object whose member function worker w calls next: pw at line
\* 89, iw at lines 90 and 91
WriterAt(w) ==
    IF pc[w] = "pixel" THEN "pw"
    ELSE IF pc[w] \in {"png", "jpg"} THEN "iw"
    ELSE "none"

Jitters == {<<0, 1>>, <<1, 2>>}

\* main.cxx lines 79 and 80: (k + randomDouble()) / (n - 1) in floating
\* point; a zero divisor gives an infinity <<1, 0>> or a NaN <<0, 0>>
ViewportCoordinate(k, r, n) ==
    LET sum == <<k * r[2] + r[1], r[2]>>
    IN  IF n - 1 = 0
           THEN <<IF sum[1] > 0 THEN 1 ELSE IF sum[1] < 0 THEN 0 - 1 ELSE 0,
                  0>>
           ELSE <<sum[1], sum[2] * (n - 1)>>

\* x is a number of [0, 1]
InUnitInterval(x) == x[2] > 0 /\ 0 <= x[1] /\ x[1] <= x[2]

\* C14: every pair (u, v) that render passes to Camera::getRay has
\* 0 <= u <= 1 and 0 <= v <= 1, for every column, every row and every jitter
\* offset of [0, 1).
C14_ViewportCoordinates ==
    \A w \in Workers :
        pc[w] = "pixel" =>
            \A ju \in Jitters : \A jv \in Jitters :
                /\ InUnitInterval(ViewportCoordinate(col[w], ju, imageWidth))
                /\ InUnitInterval(ViewportCoordinate(row[w], jv, imageHeight))

\* C15: a failing writer is neither fatal nor retried: whether writePNG
\* succeeds or fails, writePNG and writeJPG are each attempted once and
\* their results stay as reported, the pixels handed to the writers are
\* left as they are, and main reaches its end with the session closed.
C15_WriterFailureNotFatal ==
    /\ [][/\ pngResult # "none" => pngResult' = pngResult
          /\ jpgResult # "none" => jpgResult' = jpgResult
          /\ (pngResult' # pngResult \/ jpgResult' # jpgResult) =>
                UNCHANGED <<ppmOut, pngBuf, jpgBuf, pixelColor>>]_vars
    /\ <>(/\ mainpc = "exit"
          /\ session = "closed"
          /\ pngResult # "none"
          /\ jpgResult # "none")

\* writePNG failed, writeJPG was attempted all the same, and main ended
C15_Witness ==
    /\ mainpc = "exit"
    /\ session = "closed"
    /\ pngResult = "error"
    /\ jpgResult \in {"ok", "error"}

\* the number of sinks, in the order of lines 89-91, that have received
\* the pixel worker w is at
SinksPassed(w) ==
    IF pc[w] = "png" THEN 1 ELSE IF pc[w] = "jpg" THEN 2 ELSE 0

\* iteration k of worker w has handed its pixel of column i to the sink
\* number sink (1: pw.write, 2: writeToPNGBuffer, 3: writeToJPGBuffer)
Handed(w, k, i, sink) ==
    \/ k < Len(rowsClaimed[w])
    \/ /\ k = Len(rowsClaimed[w])
       /\ \/ i < col[w]
          \/ i = col[w] /\ SinksPassed(w) >= sink

\* how many of the iterations its have processed the pixel
\* p = <<column, row>> as far as the given sink
HandedCount(its, p, sink) ==
    Cardinality({it \in its : /\ RowOfIteration(it) = p[2]
                               /\ Handed(it[1], it[2], p[1], sink)})

\* a pixel colour as the sinks must receive it
FinishedColor == [added |-> samplesPerPixel, combined |-> TRUE]

EncodingStarted == pngResult # "none" \/ jpgResult # "none"

\* C18: writePNG and writeJPG are called only after every worker thread has
\* been joined, so no pixel reaches a writer once encoding has started, and
\* the session begun at the start of main is ended only after both encoding
\* calls have returned.
C18_EncodeAfterJoin ==
    /\ AllJoined => (joinIdx = numThreads /\ AllWorkersDone)
    /\ EncodingStarted => AllJoined
    /\ session = "closed" => (pngResult # "none" /\ jpgResult # "none")
    /\ (mainpc # "beginSession" /\ session # "closed") => session = "open"
    /\ [][EncodingStarted => UNCHANGED <<ppmOut, pngBuf, jpgBuf>>]_vars

\* the workers have filled the buffers, both encoders have returned and the
\* session is closed
C18_Witness ==
    /\ numThreads >= 1
    /\ session = "closed"
    /\ pngResult # "none"
    /\ jpgResult # "none"
    /\ \E p \in Columns \X RowRange : jpgBuf.count[p] >= 1

\* the number of calls a writer has received, summed over the pixels ps
RECURSIVE TotalCalls(_, _)
TotalCalls(out, ps) ==
    IF ps = {} THEN 0
    ELSE LET p == CHOOSE q \in ps : TRUE
         IN  out.count[p] + TotalCalls(out, ps \ {p})

\* C19: in a run with a single worker the loop body of render executes
\* exactly once for each counter value from the initial value down to 1: the
\* rows processed number the counter's initial value, and each writer is
\* handed that number times imageWidth pixels.
C19_SingleWorkerCount ==
    numThreads = 1 =>
        /\ Len(rowsClaimed[1]) <= InitialScanLines
        /\ \A k \in 1..Len(rowsClaimed[1]) :
              rowsClaimed[1][k] =
                  RowIndex(InitialScanLines - k + 1, InitialScanLines - k)
        /\ AllJoined =>
              /\ Len(rowsClaimed[1]) = InitialScanLines
              /\ scanLinesLeft[CellOf(1)] = 0
              /\ \A out \in {ppmOut, pngBuf, jpgBuf} :
                    TotalCalls(out, Columns \X RowRange) =
                        InitialScanLines * imageWidth

\* the single worker has finished and was joined, having processed rows
C19_Witness ==
    /\ numThreads = 1
    /\ AllJoined
    /\ Len(rowsClaimed[1]) = InitialScanLines
    /\ InitialScanLines >= 1
    /\ TotalCalls(jpgBuf, Columns \X RowRange) = InitialScanLines * imageWidth

\* ------------------------------------------------------------------------
\* Properties of rayColor
\* ------------------------------------------------------------------------

Max(a, b) == IF a > b THEN a ELSE b

\* C7: rayColor called with a budget <= 0 returns exactly black and queries
\* neither the scene nor a material.
C7_NoBudgetIsBlack ==
    rcBudget <= 0 =>
        /\ hitQueries = 0
        /\ scatterQueries = 0
        /\ Len(rcCalls) = 1
        /\ rcDone => (rcResult = <<<<0, 1>>, <<0, 1>>, <<0, 1>>>>
                      /\ rcCalls[1].via = "budget")

C7_Witness == rcBudget = 0 /\ rcDone /\ rcCalls[1].via = "budget"

\* each recursive call has a budget one lower than its caller's, and the
\* recursive calls and the queries number at most the top-level budget
RecursionBounds ==
    /\ \A k \in 1..(Len(rcCalls) - 1) :
          rcCalls[k + 1].depth = rcCalls[k].depth - 1
    /\ Len(rcCalls) - 1 <= Max(rcBudget, 0)
    /\ hitQueries <= Max(rcBudget, 0)
    /\ scatterQueries <= Max(rcBudget, 0)

\* C8: every recursive call has a budget exactly one lower than its caller,
\* so a call with budget d >= 0 makes at most d nested recursive calls and
\* at most d scene queries, and the top-level call returns.
C8_BoundedRecursion == []RecursionBounds /\ <>rcDone

\* every hit scattered: the budget is used up to the last bounce
C8_Witness ==
    /\ rcBudget = maxRayDepth
    /\ rcDone
    /\ hitQueries = maxRayDepth
    /\ Len(rcCalls) - 1 = maxRayDepth
    /\ \A k \in 1..maxRayDepth : rcCalls[k].scattered = "yes"

\* C9: for a call with budget > 0 whose ray hits the scene: absorbed gives
\* exactly black, scattered gives the component-wise product of the
\* attenuation and the result of the call for the scattered ray with budget
\* - 1; the background gradient is returned only without a hit.
C9_HitContract ==
    \A k \in 1..Len(rcCalls) :
        (rcCalls[k].depth > 0 /\ rcCalls[k].phase = "returned") =>
            /\ (rcCalls[k].hit = "yes" /\ rcCalls[k].scattered = "no") =>
                  rcCalls[k].value = <<<<0, 1>>, <<0, 1>>, <<0, 1>>>>
            /\ (rcCalls[k].hit = "yes" /\ rcCalls[k].scattered = "yes") =>
                  /\ k + 1 <= Len(rcCalls)
                  /\ rcCalls[k + 1].phase = "returned"
                  /\ rcCalls[k + 1].depth = rcCalls[k].depth - 1
                  /\ \A c \in 1..3 :
                        rcCalls[k].value[c] =
                            RatMul(rcCalls[k].attenuation[c],
                                   rcCalls[k + 1].value[c])
            /\ rcCalls[k].via = "gradient" => rcCalls[k].hit = "no"
            /\ rcCalls[k].hit = "no" => rcCalls[k].via = "gradient"

\* a scattered hit whose scattered ray reached the sky: the result is the
\* attenuated sky colour, not black
C9_Witness ==
    /\ rcDone
    /\ rcBudget >= 2
    /\ rcCalls[1].scattered = "yes"
    /\ rcCalls[2].via = "gradient"
    /\ rcResult # Black
    /\ rcResult # rcCalls[2].value

\* the sky colour of a direction with vertical component y, in closed form:
\* (1 - t) * (1, 1, 1) + t * (0.5, 0.7, 1.0) with t = (y + 1) / 2
SkyGradient(y) ==
    <<RatSub(Rat(3, 4), RatMul(Rat(1, 4), y)),
      RatSub(Rat(17, 20), RatMul(Rat(3, 20), y)),
      Rat(1, 1)>>

\* C10: with a bounce limit of 1 a primary ray that hits a primitive yields
\* exactly black whatever the attenuation, and one that misses yields the
\* sky-gradient colour of its direction.
C10_SingleBounce ==
    (rcBudget = 1 /\ rcDone) =>
        /\ rcCalls[1].hit = "yes" =>
              rcResult = <<<<0, 1>>, <<0, 1>>, <<0, 1>>>>
        /\ rcCalls[1].hit = "no" => rcResult = SkyGradient(rcCalls[1].y)

\* a primary ray hit, the scatter succeeded and the recursive call ran
\* with budget 0
C10_Witness ==
    /\ rcBudget = 1
    /\ rcDone
    /\ rcCalls[1].scattered = "yes"
    /\ Len(rcCalls) = 2
    /\ rcCalls[2].depth = 0

\* a <= b for rationals with positive denominators
RatLeq(a, b) == a[1] * b[2] <= b[1] * a[2]

\* C11: rayColor with a budget > 0 against an empty scene returns exactly
\* (1 - t) * (1, 1, 1) + t * (0.5, 0.7, 1.0) with t = (y + 1) / 2 for the
\* vertical component y of the unit direction: (0.5, 0.7, 1.0) straight up,
\* (0.75, 0.85, 1.0) for y = 0, and every component within [0.5, 1].
C11_EmptySceneGradient ==
    (world = "empty" /\ rcBudget > 0 /\ rcDone) =>
        /\ hitQueries = 1
        /\ scatterQueries = 0
        /\ rcResult = SkyGradient(rcCalls[1].y)
        /\ rcCalls[1].y = <<1, 1>> =>
              rcResult = <<<<1, 2>>, <<7, 10>>, <<1, 1>>>>
        /\ rcCalls[1].y = <<0, 1>> =>
              rcResult = <<<<3, 4>>, <<17, 20>>, <<1, 1>>>>
        /\ \A c \in 1..3 : /\ RatLeq(<<1, 2>>, rcResult[c])
                           /\ RatLeq(rcResult[c], <<1, 1>>)

\* a ray pointing straight up through the empty scene
C11_Witness ==
    /\ world = "empty"
    /\ rcBudget > 0
    /\ rcDone
    /\ rcCalls[1].y = <<1, 1>>
    /\ rcResult = <<<<1, 2>>, <<7, 10>>, <<1, 1>>>>
====
